---- MODULE Spec2Model ----
(***************************************************************************)
(* A model of the `tag` command-line helper (front-end-strong/tagit):      *)
(* utils.js (src/unnamed/part_002) and the commands under                  *)
(* src/lib/commands.  Strings are sequences of one-character strings, so   *)
(* that parsing, formatting, splitting and prefix tests are computed as    *)
(* the code computes them.                                                 *)
(***************************************************************************)
EXTENDS Integers, Sequences, FiniteSets, TLC

VARIABLES
    args,       \* arguments of the utility function under test
    ret,        \* its return value wrapped, <<>> before the call
    configFile, \* .tag-config.json: Null when absent, else
                \* <<[readable, valid, config]>>
    repoTags,   \* the tags of the local repository, in listing order
    ENVS,       \* the registry loaded at process start
    cmd,        \* the command this process runs
    pc,         \* the position of the command's action callback
    exitCode,   \* Null while running, else <<code>>
    console,    \* what the command has printed: [kind, text]
    gitLog,     \* the git subprocesses run so far: [op, name, annotation, status, stderr]
    prompts,    \* the questions asked so far: [question, subject, answer]
    envArg,     \* bump: the [env] argument of the command line, or Null
    envName,    \* bump: the chosen environment key
    latest,     \* bump: the resolved latest tag record wrapped, or Null
    newTag,     \* bump: the tag name to create
    message,    \* bump: the annotation typed by the user
    prefixMap,  \* setup: the detected prefix groups
    prefixArray,\* setup: the sorted prefixes
    config,     \* setup: the registry being built
    idx         \* list, setup: the loop index

fnVars == <<args, ret>>
worldVars == <<configFile, repoTags>>
procVars == <<ENVS, cmd, pc, exitCode, console, gitLog, prompts>>
bumpVars == <<envArg, envName, latest, newTag, message>>
setupVars == <<prefixMap, prefixArray, config>>
cliVars == <<worldVars, procVars, bumpVars, setupVars, idx>>
vars == <<fnVars, cliVars>>

(***************************************************************************)
(* Bounds of the model.                                                    *)
(***************************************************************************)
MaxTagLen == 8      \* longest tag string enumerated character by character
MaxNum == 11        \* largest version component of the round trip
MaxCmp == 1         \* largest small version component of the order checks
MaxListed == 3      \* most tags in one listing given to the resolver
MaxTagList == 4     \* most tags in one listing given to the prefix detector
MaxOverlapLen == 7  \* longest tag string decoded under two prefixes
MaxRepoTags == 2    \* most tags in the repository when a command starts

(***************************************************************************)
(* Strings.                                                                *)
(***************************************************************************)
Digits == <<"0", "1", "2", "3", "4", "5", "6", "7", "8", "9">>
Letters ==
    {"a", "b", "c", "d", "e", "f", "g", "h", "i", "j", "k", "l", "m",
     "n", "o", "p", "q", "r", "s", "t", "u", "v", "w", "x", "y", "z",
     "A", "B", "C", "D", "E", "F", "G", "H", "I", "J", "K", "L", "M",
     "N", "O", "P", "Q", "R", "S", "T", "U", "V", "W", "X", "Y", "Z"}

IsDigit(c) == \E i \in 1..10 : Digits[i] = c
IsLetter(c) == c \in Letters
DigitVal(c) == (CHOOSE i \in 1..10 : Digits[i] = c) - 1

\* JavaScript null / a missing value: the empty sequence.  A present value
\* that is not itself a sequence is wrapped as a one-element sequence.
Null == <<>>

\* String.prototype.startsWith
StartsWith(s, p) ==
    /\ Len(p) <= Len(s)
    /\ \A i \in 1..Len(p) : s[i] = p[i]

\* String.prototype.slice(n) for 0 <= n
SliceFrom(s, n) == IF n >= Len(s) THEN <<>> ELSE SubSeq(s, n + 1, Len(s))

\* The index just after the maximal run of digits of s that starts at i
\* (a greedy \d* at position i).
DigitRunEnd(s, i) ==
    CHOOSE j \in i..(Len(s) + 1) :
        /\ \A k \in i..(j - 1) : IsDigit(s[k])
        /\ (j = Len(s) + 1 \/ ~IsDigit(s[j]))

\* The index just after the maximal run of letters of s that starts at i
\* (a greedy [a-zA-Z]* at position i).
LetterRunEnd(s, i) ==
    CHOOSE j \in i..(Len(s) + 1) :
        /\ \A k \in i..(j - 1) : IsLetter(s[k])
        /\ (j = Len(s) + 1 \/ ~IsLetter(s[j]))

\* parseInt(digits, 10) on a non-empty run of digits
RECURSIVE ParseInt(_)
ParseInt(ds) ==
    IF Len(ds) = 0 THEN 0
    ELSE 10 * ParseInt(SubSeq(ds, 1, Len(ds) - 1)) + DigitVal(ds[Len(ds)])

\* Number-to-string conversion of a non-negative integer (template literal)
RECURSIVE NumToString(_)
NumToString(n) ==
    IF n < 10 THEN <<Digits[n + 1]>>
    ELSE NumToString(n \div 10) \o <<Digits[(n % 10) + 1]>>

IsSpace(c) == c \in {" ", "\n", "\t"}

\* String.prototype.trim
Trim(s) ==
    IF \A i \in 1..Len(s) : IsSpace(s[i]) THEN <<>>
    ELSE LET first == CHOOSE i \in 1..Len(s) :
                          ~IsSpace(s[i]) /\ \A k \in 1..(i - 1) : IsSpace(s[k])
             last == CHOOSE i \in 1..Len(s) :
                          ~IsSpace(s[i]) /\ \A k \in (i + 1)..Len(s) : IsSpace(s[k])
         IN  SubSeq(s, first, last)

\* String.prototype.split(sep) for a one-character separator
RECURSIVE Split(_, _)
Split(s, sep) ==
    IF \A i \in 1..Len(s) : s[i] # sep THEN <<s>>
    ELSE LET i == CHOOSE k \in 1..Len(s) :
                      s[k] = sep /\ \A m \in 1..(k - 1) : s[m] # sep
         IN  <<SubSeq(s, 1, i - 1)>> \o Split(SubSeq(s, i + 1, Len(s)), sep)

\* Array.prototype.join(sep) for a one-character separator
RECURSIVE Join(_, _)
Join(parts, sep) ==
    IF Len(parts) = 0 THEN <<>>
    ELSE IF Len(parts) = 1 THEN parts[1]
    ELSE parts[1] \o <<sep>> \o Join(Tail(parts), sep)

\* lines.filter((line) => line.trim())
RECURSIVE NonBlankLines(_)
NonBlankLines(lines) ==
    IF lines = <<>> THEN <<>>
    ELSE (IF Trim(Head(lines)) # <<>> THEN <<Head(lines)>> ELSE <<>>)
             \o NonBlankLines(Tail(lines))

(***************************************************************************)
(* utils.js: the version codec.                                            *)
(***************************************************************************)
\* Mutant: the pattern without its end anchor, /^(\d+)\.(\d+)\.(\d+)/
SemverMatchUnanchored(rest) ==
    LET e1 == DigitRunEnd(rest, 1) IN
    IF ~(e1 > 1 /\ e1 <= Len(rest) /\ rest[e1] = ".") THEN Null
    ELSE
    LET e2 == DigitRunEnd(rest, e1 + 1) IN
    IF ~(e2 > e1 + 1 /\ e2 <= Len(rest) /\ rest[e2] = ".") THEN Null
    ELSE
    LET e3 == DigitRunEnd(rest, e2 + 1) IN
    IF ~(e3 > e2 + 1) THEN Null
    ELSE <<SubSeq(rest, 1, e1 - 1),
           SubSeq(rest, e1 + 1, e2 - 1),
           SubSeq(rest, e2 + 1, e3 - 1)>>

\* rest.match(/^(\d+)\.(\d+)\.(\d+)$/): the three captured digit runs, or Null
SemverMatch(rest) ==
    LET e1 == DigitRunEnd(rest, 1) IN
    IF ~(e1 > 1 /\ e1 <= Len(rest) /\ rest[e1] = ".") THEN Null
    ELSE
    LET e2 == DigitRunEnd(rest, e1 + 1) IN
    IF ~(e2 > e1 + 1 /\ e2 <= Len(rest) /\ rest[e2] = ".") THEN Null
    ELSE
    LET e3 == DigitRunEnd(rest, e2 + 1) IN
    IF ~(e3 > e2 + 1 /\ e3 = Len(rest) + 1) THEN Null
    ELSE <<SubSeq(rest, 1, e1 - 1),
           SubSeq(rest, e1 + 1, e2 - 1),
           SubSeq(rest, e2 + 1, e3 - 1)>>

\* Mutant: letters between the prefix and the version are skipped.
parseSemverFromTagSkippingLetters(tag, prefix) ==
    IF ~StartsWith(tag, prefix) THEN Null
    ELSE
    LET rest == SliceFrom(tag, LetterRunEnd(tag, Len(prefix) + 1) - 1)
        match == SemverMatch(rest)
    IN  IF match = Null THEN Null
        ELSE <<ParseInt(match[1]), ParseInt(match[2]), ParseInt(match[3])>>

parseSemverFromTag(tag, prefix) ==
    IF ~StartsWith(tag, prefix) THEN Null
    ELSE
    LET rest == SliceFrom(tag, Len(prefix))
        match == SemverMatch(rest)
    IN  IF match = Null THEN Null
        ELSE <<ParseInt(match[1]), ParseInt(match[2]), ParseInt(match[3])>>

\* Mutant: the comparison starts at the wrong component and never looks at
\* the major number.
compareSemverSkipMajor(a, b) ==
    IF a[2] # b[2] THEN a[2] - b[2]
    ELSE a[3] - b[3]

compareSemver(a, b) ==
    IF a[1] # b[1] THEN a[1] - b[1]
    ELSE IF a[2] # b[2] THEN a[2] - b[2]
    ELSE a[3] - b[3]

\* Mutant: the minor number is raised instead of the patch number.
bumpMinor(version) == <<version[1], version[2] + 1, 0>>

bumpPatch(version) == <<version[1], version[2], version[3] + 1>>

\* Mutant: the minor number is written twice, the patch number never.
formatVersionNoPatch(version) ==
    NumToString(version[1]) \o <<".">> \o NumToString(version[2])
        \o <<".">> \o NumToString(version[2])

formatVersion(version) ==
    NumToString(version[1]) \o <<".">> \o NumToString(version[2])
        \o <<".">> \o NumToString(version[3])

(***************************************************************************)
(* utils.js: the environment registry.  A registry is the sequence of its  *)
(* entries in insertion order (the key order of the JavaScript object).    *)
(***************************************************************************)
Env(key, label, prefix) ==
    [key |-> key, label |-> label, prefix |-> prefix, description |-> Null]

DEFAULT_ENVS ==
    << Env(<<"p", "r", "o", "d">>,
           <<"P", "r", "o", "d", "u", "c", "t", "i", "o", "n">>, <<"v">>),
       Env(<<"s", "a", "n", "d", "b", "o", "x">>,
           <<"S", "a", "n", "d", "b", "o", "x">>, <<"x">>),
       Env(<<"p", "r", "e", "p", "r", "o", "d">>,
           <<"P", "r", "e", "p", "r", "o", "d">>,
           <<"p", "r", "e", "p", "r", "o", "d">>),
       Env(<<"s", "t", "a", "g", "i", "n", "g">>,
           <<"S", "t", "a", "g", "i", "n", "g">>, <<"s">>),
       Env(<<"d", "e", "v">>, <<"D", "e", "v">>, <<"d">>) >>

\* Object.keys(ENVS)
Keys(envs) == [i \in 1..Len(envs) |-> envs[i].key]

HasKey(envs, key) == \E i \in 1..Len(envs) : envs[i].key = key

\* ENVS[key]: the entry wrapped, or Null (undefined)
Lookup(envs, key) ==
    IF HasKey(envs, key)
    THEN <<envs[CHOOSE i \in 1..Len(envs) : envs[i].key = key]>>
    ELSE Null

(***************************************************************************)
(* utils.js: runGit and the latest-tag resolver.  The result of a git      *)
(* subprocess is [status, stdout, stderr].                                 *)
(***************************************************************************)
GitOk(stdout) == [status |-> 0, stdout |-> stdout, stderr |-> <<>>]
GitFailed(stderr) == [status |-> 1, stdout |-> <<>>, stderr |-> stderr]

GenericGitError ==
    <<"G", "i", "t", " ", "c", "o", "m", "m", "a", "n", "d", " ",
      "f", "a", "i", "l", "e", "d">>

\* Mutant: the error message never carries the error text of git.
runGitGenericMessage(result) ==
    IF result.status # 0
    THEN [threw |-> TRUE, output |-> <<>>, message |-> GenericGitError]
    ELSE [threw |-> FALSE, output |-> Trim(result.stdout), message |-> <<>>]

\* runGit: [threw |-> TRUE, message] or [threw |-> FALSE, output]
runGit(result) ==
    IF result.status # 0
    THEN [threw |-> TRUE, output |-> <<>>,
          message |-> IF result.stderr # <<>> THEN result.stderr
                      ELSE GenericGitError]
    ELSE [threw |-> FALSE, output |-> Trim(result.stdout), message |-> <<>>]

\* One line of `git tag --list --format
\* '%(refname:short)|%(taggername)|%(taggerdate:relative)|%(contents)'`
FormatTagLine(t) ==
    t.name \o <<"|">> \o t.tagger \o <<"|">> \o t.date \o <<"|">> \o t.contents

\* The standard output of that listing: one formatted record per tag, each
\* ended by a newline.
RECURSIVE FormatTagListing(_)
FormatTagListing(tags) ==
    IF tags = <<>> THEN <<>>
    ELSE FormatTagLine(Head(tags)) \o <<"\n">> \o FormatTagListing(Tail(tags))

\* %(contents) of a lightweight tag: the message of the commit it points to
CommitMessage == <<"w", "i", "p", "\n">>

Unknown == <<"u", "n", "k", "n", "o", "w", "n">>

\* The body of the for loop: the record of one output line, or Null
LineRecord(line, prefix) ==
    LET parts == Split(line, "|")
        name == parts[1]
        author == IF Len(parts) >= 2 /\ parts[2] # <<>> THEN parts[2]
                  ELSE Unknown
        ago == IF Len(parts) >= 3 THEN parts[3] ELSE <<>>
        description == IF Len(parts) >= 4
                       THEN Trim(Join(SubSeq(parts, 4, Len(parts)), "|"))
                       ELSE <<>>
        version == parseSemverFromTag(name, prefix)
    IN  IF version # Null
        THEN <<[name |-> name, author |-> author, ago |-> ago,
                description |-> description, version |-> version]>>
        ELSE Null

RECURSIVE CollectTags(_, _)
CollectTags(lines, prefix) ==
    IF lines = <<>> THEN <<>>
    ELSE LineRecord(Head(lines), prefix) \o CollectTags(Tail(lines), prefix)

\* Mutant: the comparator's arguments the other way round (ascending).
OldestFirst(a, b) == compareSemver(a.version, b.version)

\* The comparator of tags.sort: (a, b) => compareSemver(b.version, a.version)
LatestFirst(a, b) == compareSemver(b.version, a.version)

\* A sort that puts a tag in front of the earlier tags it compares equal to
RECURSIVE SortTagsUnstable(_)
SortTagsUnstable(tags) ==
    IF tags = <<>> THEN <<>>
    ELSE LET sorted == SortTagsUnstable(SubSeq(tags, 1, Len(tags) - 1))
             x == tags[Len(tags)]
             k == Cardinality({i \in 1..Len(sorted) : LatestFirst(sorted[i], x) < 0})
         IN  SubSeq(sorted, 1, k) \o <<x>> \o SubSeq(sorted, k + 1, Len(sorted))

\* Array.prototype.sort with that comparator; the sort is stable.
RECURSIVE SortTags(_)
SortTags(tags) ==
    IF tags = <<>> THEN <<>>
    ELSE LET sorted == SortTags(SubSeq(tags, 1, Len(tags) - 1))
             x == tags[Len(tags)]
             k == Cardinality({i \in 1..Len(sorted) : LatestFirst(sorted[i], x) <= 0})
         IN  SubSeq(sorted, 1, k) \o <<x>> \o SubSeq(sorted, k + 1, Len(sorted))

\* getLatestTagForEnv, given the result of its git subprocess: the latest
\* record wrapped, or Null
getLatestTagForEnv(name, envs, result) ==
    LET env == Lookup(envs, name) IN
    IF env = Null THEN Null
    ELSE
    LET prefix == env[1].prefix
        git == runGit(result)
    IN
    IF git.threw THEN Null
    ELSE IF git.output = <<>> THEN Null
    ELSE
    LET lines == NonBlankLines(Split(git.output, "\n"))
        tags == CollectTags(lines, prefix)
    IN  IF Len(tags) = 0 THEN Null
        ELSE <<SortTags(tags)[1]>>

(***************************************************************************)
(* utils.js: the prefix detector.  The Map is the sequence of its entries  *)
(* [prefix, examples] in insertion order.                                  *)
(***************************************************************************)
MaxExamples == 3

\* Mutant: the pattern with an end anchor, /^([a-zA-Z]+)(\d+\.\d+\.\d+)$/
PrefixMatchAnchored(tag) ==
    LET e0 == LetterRunEnd(tag, 1) IN
    IF e0 = 1 THEN Null
    ELSE
    LET e1 == DigitRunEnd(tag, e0) IN
    IF ~(e1 > e0 /\ e1 <= Len(tag) /\ tag[e1] = ".") THEN Null
    ELSE
    LET e2 == DigitRunEnd(tag, e1 + 1) IN
    IF ~(e2 > e1 + 1 /\ e2 <= Len(tag) /\ tag[e2] = ".") THEN Null
    ELSE
    LET e3 == DigitRunEnd(tag, e2 + 1) IN
    IF ~(e3 > e2 + 1 /\ e3 = Len(tag) + 1) THEN Null
    ELSE SubSeq(tag, 1, e0 - 1)

\* tag.match(/^([a-zA-Z]+)(\d+\.\d+\.\d+)/): the captured prefix, or Null
PrefixMatch(tag) ==
    LET e0 == LetterRunEnd(tag, 1) IN
    IF e0 = 1 THEN Null
    ELSE
    LET e1 == DigitRunEnd(tag, e0) IN
    IF ~(e1 > e0 /\ e1 <= Len(tag) /\ tag[e1] = ".") THEN Null
    ELSE
    LET e2 == DigitRunEnd(tag, e1 + 1) IN
    IF ~(e2 > e1 + 1 /\ e2 <= Len(tag) /\ tag[e2] = ".") THEN Null
    ELSE
    LET e3 == DigitRunEnd(tag, e2 + 1) IN
    IF ~(e3 > e2 + 1) THEN Null
    ELSE SubSeq(tag, 1, e0 - 1)

MapHas(map, prefix) ==
    \E i \in 1..Len(map) : map[i].prefix = prefix

\* prefixMap.get(prefix), or the empty list when the Map has no such key
MapGet(map, prefix) ==
    IF MapHas(map, prefix)
    THEN map[CHOOSE i \in 1..Len(map) :
                       map[i].prefix = prefix].examples
    ELSE <<>>

\* The loop body with the new tag put in front of its group
AddTagInFront(map, tag) ==
    LET prefix == PrefixMatch(tag) IN
    IF prefix = Null THEN map
    ELSE
    LET m == IF MapHas(map, prefix) THEN map
             ELSE Append(map, [prefix |-> prefix, examples |-> <<>>])
        i == CHOOSE k \in 1..Len(m) : m[k].prefix = prefix
    IN  IF Len(m[i].examples) < MaxExamples
        THEN [m EXCEPT ![i].examples = <<tag>> \o @]
        ELSE m

\* The body of the for loop of detectPrefixes
AddTag(map, tag) ==
    LET prefix == PrefixMatch(tag) IN
    IF prefix = Null THEN map
    ELSE
    LET m == IF MapHas(map, prefix) THEN map
             ELSE Append(map, [prefix |-> prefix, examples |-> <<>>])
        i == CHOOSE k \in 1..Len(m) : m[k].prefix = prefix
    IN  IF Len(m[i].examples) < MaxExamples
        THEN [m EXCEPT ![i].examples = Append(@, tag)]
        ELSE m

RECURSIVE AddTags(_, _)
AddTags(map, tags) ==
    IF tags = <<>> THEN map
    ELSE AddTags(AddTag(map, Head(tags)), Tail(tags))

\* detectPrefixes, given the result of `git tag --list`
detectPrefixes(result) ==
    LET git == runGit(result) IN
    IF git.threw THEN <<>>
    ELSE IF git.output = <<>> THEN <<>>
    ELSE AddTags(<<>>, NonBlankLines(Split(git.output, "\n")))

\* The standard output of `git tag --list`: one tag name per line
RECURSIVE FormatNameListing(_)
FormatNameListing(names) ==
    IF names = <<>> THEN <<>>
    ELSE Head(names) \o <<"\n">> \o FormatNameListing(Tail(names))

(***************************************************************************)
(* No command is running: the state of the specifications that apply one   *)
(* utility function to drawn arguments.                                    *)
(***************************************************************************)
CliIdle ==
    /\ configFile = Null
    /\ repoTags = <<>>
    /\ ENVS = DEFAULT_ENVS
    /\ cmd = "none"
    /\ pc = "idle"
    /\ exitCode = Null
    /\ console = <<>>
    /\ gitLog = <<>>
    /\ prompts = <<>>
    /\ envArg = Null
    /\ envName = Null
    /\ latest = Null
    /\ newTag = Null
    /\ message = Null
    /\ prefixMap = <<>>
    /\ prefixArray = <<>>
    /\ config = <<>>
    /\ idx = 0

(***************************************************************************)
(* SpecCodec: the codec's functions applied to inputs drawn from bounded   *)
(* sets.                                                                   *)
(***************************************************************************)
TagAlphabet == {"v", "1", ".", "-"}
TagStrings == UNION {[1..n -> TagAlphabet] : n \in 0..MaxTagLen}
ParsePrefixes == {<<"v">>, <<"v", "v">>, <<"x">>}
AlphaPrefixes == {<<"v">>, <<"V">>, <<"p", "r", "e", "p", "r", "o", "d">>}
RoundTripVersions == (0..MaxNum) \X (0..MaxNum) \X (0..MaxNum)
CmpNums == (0..MaxCmp) \cup {9}
CmpVersions == CmpNums \X CmpNums \X CmpNums

\* Tags and pairs of registry prefixes, one of them a proper prefix of
\* another
OverlapAlphabet == {"p", "v", "1", "."}
OverlapTags == UNION {[1..n -> OverlapAlphabet] : n \in 0..MaxOverlapLen}
PrefixPairs ==
    { [a |-> <<"p">>, b |-> <<"p", "v">>],
      [a |-> <<"p">>, b |-> <<"v">>],
      [a |-> <<"p", "v">>, b |-> <<"v">>] }

CodecArgs ==
    [fn : {"parseSemverFromTag"}, tag : TagStrings, prefix : ParsePrefixes]
    \cup [fn : {"parseUnderTwoPrefixes"}, tag : OverlapTags,
          prefixes : PrefixPairs]
    \cup [fn : {"formatVersion"}, version : RoundTripVersions,
          prefix : AlphaPrefixes]
    \cup [fn : {"compareSemver"}, a : CmpVersions, b : CmpVersions,
          c : CmpVersions]

InitCodec ==
    /\ args \in CodecArgs
    /\ ret = <<>>
    /\ CliIdle

CallParseSemverFromTag ==
    /\ args.fn = "parseSemverFromTag"
    /\ ret = <<>>
    /\ ret' = <<parseSemverFromTag(args.tag, args.prefix)>>
    /\ UNCHANGED <<args, cliVars>>

\* The tag decoded under the prefixes of two environments, as a loop over
\* the registry does
CallParseUnderTwoPrefixes ==
    /\ args.fn = "parseUnderTwoPrefixes"
    /\ ret = <<>>
    /\ ret' = <<[a |-> parseSemverFromTag(args.tag, args.prefixes.a),
                 b |-> parseSemverFromTag(args.tag, args.prefixes.b)]>>
    /\ UNCHANGED <<args, cliVars>>

CallFormatVersion ==
    /\ args.fn = "formatVersion"
    /\ ret = <<>>
    /\ ret' = <<formatVersion(args.version)>>
    /\ UNCHANGED <<args, cliVars>>

CallCompareSemver ==
    /\ args.fn = "compareSemver"
    /\ ret = <<>>
    /\ ret' = <<[ab |-> compareSemver(args.a, args.b),
                 ba |-> compareSemver(args.b, args.a),
                 bc |-> compareSemver(args.b, args.c),
                 ac |-> compareSemver(args.a, args.c)]>>
    /\ UNCHANGED <<args, cliVars>>

NextCodec ==
    \/ CallParseSemverFromTag
    \/ CallParseUnderTwoPrefixes
    \/ CallFormatVersion
    \/ CallCompareSemver

SpecCodec == InitCodec /\ [][NextCodec]_vars

(***************************************************************************)
(* Claims about the codec.                                                 *)
(***************************************************************************)
Called(fn) == args.fn = fn /\ ret # <<>>

\* C7: round trip.  For every alphabetic, non-empty prefix p and every
\* triple (M,m,q) of non-negative integers, parsing p followed by the
\* formatted triple, under prefix p, gives back (M,m,q).
C7_RoundTrip ==
    Called("formatVersion") =>
        parseSemverFromTag(args.prefix \o ret[1], args.prefix) = args.version

C7_Witness ==
    /\ Called("formatVersion")
    /\ args.version = <<10, 0, 11>>
    /\ args.prefix = <<"p", "r", "e", "p", "r", "o", "d">>
    /\ ret[1] = <<"1", "0", ".", "0", ".", "1", "1">>

\* The tag is exactly the prefix followed by three non-empty runs of digits
\* separated by single dots: i and j are the positions of the two dots.
ExactSemverTag(tag, prefix) ==
    /\ Len(prefix) <= Len(tag)
    /\ SubSeq(tag, 1, Len(prefix)) = prefix
    /\ \E i, j \in 1..Len(tag) :
        /\ Len(prefix) + 1 < i
        /\ i + 1 < j
        /\ j < Len(tag)
        /\ tag[i] = "."
        /\ tag[j] = "."
        /\ \A k \in (Len(prefix) + 1)..(i - 1) : IsDigit(tag[k])
        /\ \A k \in (i + 1)..(j - 1) : IsDigit(tag[k])
        /\ \A k \in (j + 1)..Len(tag) : IsDigit(tag[k])

\* C8: parseSemverFromTag returns absent for every tag that is not exactly
\* the prefix followed by three digit runs separated by single dots.
C8_RejectsInexact ==
    (Called("parseSemverFromTag") /\ ~ExactSemverTag(args.tag, args.prefix))
        => ret[1] = Null

\* v1.1.1- under prefix v: a well-formed version with a trailing character.
C8_Witness ==
    /\ Called("parseSemverFromTag")
    /\ args.prefix = <<"v">>
    /\ args.tag = <<"v", "1", ".", "1", ".", "1", "-">>
    /\ ret[1] = Null

Sign(n) == IF n < 0 THEN -1 ELSE IF n > 0 THEN 1 ELSE 0

LexLess(a, b) ==
    \/ a[1] < b[1]
    \/ a[1] = b[1] /\ a[2] < b[2]
    \/ a[1] = b[1] /\ a[2] = b[2] /\ a[3] < b[3]

\* C9: compareSemver is a strict total order on version triples: zero
\* exactly on component-wise equal triples, antisymmetric in sign,
\* transitive, and lexicographic on (major, minor, patch), so that
\* compare((1,9,9),(2,0,0)) < 0.
C9_TotalOrder ==
    Called("compareSemver") =>
        LET r == ret[1] IN
        /\ (r.ab = 0) <=> (args.a = args.b)
        /\ Sign(r.ab) = -Sign(r.ba)
        /\ (r.ab < 0 /\ r.bc < 0) => r.ac < 0
        /\ (r.ab <= 0 /\ r.bc <= 0) => r.ac <= 0
        /\ (r.ab < 0) <=> LexLess(args.a, args.b)
        /\ (args.a = <<1, 9, 9>> /\ args.b = <<2, 0, 0>>) => r.ab < 0

C9_Witness ==
    /\ Called("compareSemver")
    /\ args.a = <<1, 9, 9>>
    /\ args.b = <<9, 0, 0>>
    /\ args.c = <<9, 0, 1>>
    /\ ret[1].ab < 0
    /\ ret[1].ac < 0

IsAlphabetic(str) == str # <<>> /\ \A i \in 1..Len(str) : IsLetter(str[i])

\* C22: when two prefixes are distinct, non-empty and purely alphabetic, no
\* tag name decodes under both, also when one prefix is a proper prefix of
\* the other.
C22_OnePrefixPerTag ==
    (/\ Called("parseUnderTwoPrefixes")
     /\ args.prefixes.a # args.prefixes.b
     /\ IsAlphabetic(args.prefixes.a)
     /\ IsAlphabetic(args.prefixes.b))
        => ~(ret[1].a # Null /\ ret[1].b # Null)

\* pv1.1.1 decodes under pv and not under p.
C22_Witness ==
    /\ Called("parseUnderTwoPrefixes")
    /\ args.tag = <<"p", "v", "1", ".", "1", ".", "1">>
    /\ args.prefixes = [a |-> <<"p">>, b |-> <<"p", "v">>]
    /\ ret[1].a = Null
    /\ ret[1].b = <<1, 1, 1>>

(***************************************************************************)
(* SpecResolve: getLatestTagForEnv applied to the listings git can print.  *)
(***************************************************************************)
KeyProd == <<"p", "r", "o", "d">>
KeyNone == <<"q", "a">>

ListedNames ==
    { <<"v", "1", ".", "2", ".", "3">>,
      <<"v", "1", ".", "2", ".", "1", "0">>,
      <<"v", "1", ".", "3", ".", "0">>,
      <<"v", "0", "1", ".", "2", ".", "3">>,
      <<"v", "1", ".", "2", ".", "3", "-", "r", "c", "1">> }

\* tagger, date and message of a lightweight tag, of an annotated tag whose
\* message holds the delimiter, and of two whose messages have two lines,
\* the second line being a tag name or not
ListedMeta ==
    { [tagger |-> <<>>, date |-> <<>>, contents |-> CommitMessage],
      [tagger |-> <<"b", "o", "b">>, date |-> <<"2", "d">>,
       contents |-> <<"a", "|", "b", "\n">>],
      [tagger |-> <<"a", "n", "n">>, date |-> <<"3", "h">>,
       contents |-> <<"m", "\n", "v", "9", ".", "0", ".", "0", "\n">>],
      [tagger |-> <<"e", "v", "e">>, date |-> <<"1", "w">>,
       contents |-> <<"m", "\n", "n", "\n">>] }

ListedTags ==
    { [name |-> n, tagger |-> m.tagger, date |-> m.date, contents |-> m.contents] :
          n \in ListedNames, m \in ListedMeta }

\* Tag names are unique in a repository.
Listings ==
    { l \in UNION {[1..n -> ListedTags] : n \in 0..MaxListed} :
          \A i, j \in DOMAIN l : i # j => l[i].name # l[j].name }

GitErrors == { <<>>, <<"f", "a", "t", "a", "l">> }

ResolveArgs ==
    [fn : {"getLatestTagForEnv"}, envName : {KeyProd, KeyNone},
     ENVS : {DEFAULT_ENVS}, status : {0}, stderr : {<<>>}, listing : Listings]
    \cup [fn : {"getLatestTagForEnv"}, envName : {KeyProd, KeyNone},
          ENVS : {DEFAULT_ENVS}, status : {1}, stderr : GitErrors,
          listing : {<<>>}]

InitResolve ==
    /\ args \in ResolveArgs
    /\ ret = <<>>
    /\ CliIdle

CallGetLatestTagForEnv ==
    /\ args.fn = "getLatestTagForEnv"
    /\ ret = <<>>
    /\ ret' = <<getLatestTagForEnv(args.envName, args.ENVS,
                    IF args.status = 0
                    THEN GitOk(FormatTagListing(args.listing))
                    ELSE GitFailed(args.stderr))>>
    /\ UNCHANGED <<args, cliVars>>

NextResolve == CallGetLatestTagForEnv

SpecResolve == InitResolve /\ [][NextResolve]_vars

\* The version of the i-th listed tag under the environment's prefix, or Null
ListedVersion(i) ==
    parseSemverFromTag(args.listing[i].name,
                       Lookup(args.ENVS, args.envName)[1].prefix)

ResolvedAtLeastAllListed ==
    /\ ret[1] # Null
    /\ \A i \in DOMAIN args.listing :
           ListedVersion(i) # Null
               => compareSemver(ret[1][1].version, ListedVersion(i)) >= 0

\* C1 as stated: for any non-empty list of tag lines returned by the query,
\* getLatestTagForEnv returns a record whose version is greater than or
\* equal to the version of every listed tag that decodes under the prefix.
C1_AsStated ==
    (/\ Called("getLatestTagForEnv")
     /\ args.status = 0
     /\ HasKey(args.ENVS, args.envName)
     /\ args.listing # <<>>)
        => ResolvedAtLeastAllListed

\* C1 amended: for any list of tag lines in which at least one tag decodes
\* under the environment's prefix, getLatestTagForEnv returns a record
\* whose version is greater than or equal to the version of every listed
\* tag that decodes under the prefix.
C1_LatestIsMaximum ==
    (/\ Called("getLatestTagForEnv")
     /\ args.status = 0
     /\ HasKey(args.ENVS, args.envName)
     /\ \E i \in DOMAIN args.listing : ListedVersion(i) # Null)
        => ResolvedAtLeastAllListed

\* v1.2.3, v1.2.10, v1.3.0 under prefix v resolves to v1.3.0.
C1_Witness ==
    /\ Called("getLatestTagForEnv")
    /\ args.status = 0
    /\ args.envName = KeyProd
    /\ Len(args.listing) = 3
    /\ args.listing[1].name = <<"v", "1", ".", "2", ".", "3">>
    /\ args.listing[2].name = <<"v", "1", ".", "2", ".", "1", "0">>
    /\ args.listing[3].name = <<"v", "1", ".", "3", ".", "0">>
    /\ ret[1] # Null
    /\ ret[1][1].name = <<"v", "1", ".", "3", ".", "0">>

\* C17: the annotation of the returned record equals the full message body,
\* trimmed, of the listed tag the record names, also when the body holds
\* the delimiter or newlines.
C17_AnnotationIsFullBody ==
    (Called("getLatestTagForEnv") /\ args.status = 0 /\ ret[1] # Null) =>
        \A i \in DOMAIN args.listing :
            args.listing[i].name = ret[1][1].name
                => ret[1][1].description = Trim(args.listing[i].contents)

\* C18: among the listed tags that decode to the version of the returned
\* record, the one listed first is the one returned.
C18_FirstOfTies ==
    (Called("getLatestTagForEnv") /\ args.status = 0 /\ ret[1] # Null) =>
        \A i \in DOMAIN args.listing :
            (/\ ListedVersion(i) # Null
             /\ ListedVersion(i) = ret[1][1].version)
                => \E j \in 1..i : args.listing[j].name = ret[1][1].name

\* v01.2.3 listed before v1.2.3: both decode to 1.2.3 and v01.2.3 is
\* returned.
C18_Witness ==
    /\ Called("getLatestTagForEnv")
    /\ args.status = 0
    /\ args.envName = KeyProd
    /\ Len(args.listing) = 2
    /\ args.listing[1].name = <<"v", "0", "1", ".", "2", ".", "3">>
    /\ args.listing[2].name = <<"v", "1", ".", "2", ".", "3">>
    /\ ret[1] # Null
    /\ ret[1][1].name = <<"v", "0", "1", ".", "2", ".", "3">>

\* C20: whenever getLatestTagForEnv returns a record, the record's name is
\* the name of a listed tag; a line of another tag's message is never
\* returned as a tag.
C20_NameIsListedTag ==
    (Called("getLatestTagForEnv") /\ args.status = 0 /\ ret[1] # Null) =>
        \E i \in DOMAIN args.listing : args.listing[i].name = ret[1][1].name

(***************************************************************************)
(* SpecDetect: detectPrefixes applied to the listings git can print.       *)
(***************************************************************************)
TagD16 == <<"d", "0", ".", "1", ".", "1", "6">>
TagD17 == <<"d", "0", ".", "1", ".", "1", "7">>
TagD18 == <<"d", "0", ".", "1", ".", "1", "8">>
TagD19 == <<"d", "0", ".", "1", ".", "1", "9">>
TagV100 == <<"V", "1", ".", "0", ".", "0">>
TagRandom == <<"r", "a", "n", "d", "o", "m">>

RepoTagNames ==
    { TagD16, TagD17, TagD18, TagD19, TagV100, TagRandom,
      <<"v", "1", ".", "0", ".", "0">>,
      <<"v", "1", ".", "2", ".", "3", "-", "r", "c", "1">>,
      <<"1", ".", "2", ".", "3">>,
      <<"v", "1", ".", "2">>,
      <<"r", "e", "l", "-", "1", ".", "2", ".", "3">> }

NameListings ==
    { l \in UNION {[1..n -> RepoTagNames] : n \in 0..MaxTagList} :
          \A i, j \in DOMAIN l : i # j => l[i] # l[j] }

DetectArgs ==
    [fn : {"detectPrefixes"}, status : {0}, stderr : {<<>>},
     listing : NameListings]
    \cup [fn : {"detectPrefixes"}, status : {1}, stderr : GitErrors,
          listing : {<<>>}]

InitDetect ==
    /\ args \in DetectArgs
    /\ ret = <<>>
    /\ CliIdle

CallDetectPrefixes ==
    /\ args.fn = "detectPrefixes"
    /\ ret = <<>>
    /\ ret' = <<detectPrefixes(IF args.status = 0
                               THEN GitOk(FormatNameListing(args.listing))
                               ELSE GitFailed(args.stderr))>>
    /\ UNCHANGED <<args, cliVars>>

NextDetect == CallDetectPrefixes

SpecDetect == InitDetect /\ [][NextDetect]_vars

\* The tag begins with P, a non-empty run of letters, immediately followed
\* by digits.digits.digits: i and j are the positions of the two dots.
HasPrefixShape(tag, P) ==
    /\ Len(P) >= 1
    /\ Len(P) < Len(tag)
    /\ SubSeq(tag, 1, Len(P)) = P
    /\ \A k \in 1..Len(P) : IsLetter(P[k])
    /\ \E i, j \in 1..Len(tag) :
        /\ Len(P) + 1 < i
        /\ i + 1 < j
        /\ j < Len(tag)
        /\ tag[i] = "."
        /\ tag[j] = "."
        /\ \A k \in (Len(P) + 1)..(i - 1) : IsDigit(tag[k])
        /\ \A k \in (i + 1)..(j - 1) : IsDigit(tag[k])
        /\ IsDigit(tag[j + 1])

InSeq(x, seq) == \E i \in 1..Len(seq) : seq[i] = x

\* Every candidate prefix of the listed tags
CandidatePrefixes ==
    UNION { { SubSeq(args.listing[i], 1, k) : k \in 1..Len(args.listing[i]) } :
                i \in DOMAIN args.listing }

\* The number of tags of shape P listed before position i
ShapedBefore(i, P) ==
    Cardinality({k \in 1..(i - 1) : HasPrefixShape(args.listing[k], P)})

\* Groups hold only listed tags of their own prefix's shape, are non-empty
\* and have distinct prefixes.
GroupsWellFormed ==
    LET map == ret[1] IN
    /\ \A g \in 1..Len(map) :
        /\ map[g].examples # <<>>
        /\ \A e \in 1..Len(map[g].examples) :
            /\ InSeq(map[g].examples[e], args.listing)
            /\ HasPrefixShape(map[g].examples[e], map[g].prefix)
    /\ \A g, h \in 1..Len(map) :
           g # h => map[g].prefix # map[h].prefix

ExampleListing == <<TagD16, TagD17, TagV100, TagRandom>>
ExampleGroups ==
    << [prefix |-> <<"d">>, examples |-> <<TagD16, TagD17>>],
       [prefix |-> <<"V">>, examples |-> <<TagV100>>] >>

\* C10 as stated: a tag is in the group of prefix P exactly when it begins
\* with P, a run of letters ending at the tag's first digit, immediately
\* followed by digits.digits.digits; tags of any other shape are in no
\* group; grouping is case-sensitive, as in the example listing.
C10_AsStated ==
    (Called("detectPrefixes") /\ args.status = 0) =>
        /\ GroupsWellFormed
        /\ \A i \in DOMAIN args.listing : \A P \in CandidatePrefixes :
               InSeq(args.listing[i], MapGet(ret[1], P))
                   <=> HasPrefixShape(args.listing[i], P)
        /\ args.listing = ExampleListing => ret[1] = ExampleGroups

\* C10 amended: a tag is in the group of prefix P exactly when it has that
\* shape and fewer than three tags of that shape are listed before it;
\* tags of any other shape are in no group; grouping is case-sensitive.
C10_GroupsByShape ==
    (Called("detectPrefixes") /\ args.status = 0) =>
        /\ GroupsWellFormed
        /\ \A i \in DOMAIN args.listing : \A P \in CandidatePrefixes :
               InSeq(args.listing[i], MapGet(ret[1], P))
                   <=> (/\ HasPrefixShape(args.listing[i], P)
                        /\ ShapedBefore(i, P) < 3)
        /\ args.listing = ExampleListing => ret[1] = ExampleGroups

C10_Witness ==
    /\ Called("detectPrefixes")
    /\ args.status = 0
    /\ args.listing = ExampleListing
    /\ ret[1] = ExampleGroups

\* The listed tags of shape P, in listing order
RECURSIVE ShapedTags(_, _)
ShapedTags(listing, P) ==
    IF listing = <<>> THEN <<>>
    ELSE IF HasPrefixShape(Head(listing), P)
         THEN <<Head(listing)>> \o ShapedTags(Tail(listing), P)
         ELSE ShapedTags(Tail(listing), P)

Min(a, b) == IF a < b THEN a ELSE b

\* C11: every group that detectPrefixes returns holds between one and three
\* examples, and they are exactly the first min(3, n) of the n listed tags
\* of the group's prefix, in listing order.
C11_FirstThreeInOrder ==
    (Called("detectPrefixes") /\ args.status = 0) =>
        \A g \in 1..Len(ret[1]) :
            LET shaped == ShapedTags(args.listing, ret[1][g].prefix)
                examples == ret[1][g].examples
            IN  /\ Len(examples) >= 1
                /\ Len(examples) <= 3
                /\ examples = SubSeq(shaped, 1, Min(3, Len(shaped)))

\* Four tags of one prefix listed out of version order: the group keeps the
\* first three as listed.
C11_Witness ==
    /\ Called("detectPrefixes")
    /\ args.status = 0
    /\ args.listing = <<TagD19, TagD16, TagD18, TagD17>>
    /\ ret[1] = << [prefix |-> <<"d">>,
                    examples |-> <<TagD19, TagD16, TagD18>>] >>

(***************************************************************************)
(* The command-line process.  A process loads the registry, runs one       *)
(* command and exits.  Every git subprocess either fails with some error   *)
(* text or succeeds; a listing succeeds with the tags of the repository.   *)
(***************************************************************************)
\* loadConfig: the parsed file, or the defaults when the file is absent or
\* does not parse
loadConfig(file) ==
    IF file = Null THEN DEFAULT_ENVS
    ELSE IF ~file[1].readable \/ ~file[1].valid THEN DEFAULT_ENVS
    ELSE file[1].config

\* saveConfig: the file after writeFileSync(JSON.stringify(config))
saveConfig(cfg) == <<[readable |-> TRUE, valid |-> TRUE, config |-> cfg]>>

\* What JSON.parse returns for the text `null`
JsonNull == <<[json |-> "null"]>>

\* The value is an object whose entries are environments
IsRegistry(envs) ==
    \A i \in 1..Len(envs) :
        DOMAIN envs[i] = {"key", "label", "prefix", "description"}

\* One question of inquirer.prompt and its answer
Prompt(question, subject, answer) ==
    [question |-> question, subject |-> subject, answer |-> answer]
Yes == <<"y">>
No == <<"n">>
YesNo(b) == IF b THEN Yes ELSE No

\* The names the glob `${prefix}[0-9]*.[0-9]*.[0-9]*` matches: the prefix, a
\* digit, anything, a dot, a digit, anything, a dot, a digit, anything.
GlobMatches(name, prefix) ==
    /\ StartsWith(name, prefix)
    /\ LET rest == SliceFrom(name, Len(prefix)) IN
       /\ Len(rest) >= 5
       /\ IsDigit(rest[1])
       /\ \E i, j \in 2..Len(rest) :
           /\ i + 1 < j
           /\ j < Len(rest)
           /\ rest[i] = "."
           /\ IsDigit(rest[i + 1])
           /\ rest[j] = "."
           /\ IsDigit(rest[j + 1])

RECURSIVE GlobList(_, _)
GlobList(tags, prefix) ==
    IF tags = <<>> THEN <<>>
    ELSE (IF GlobMatches(Head(tags).name, prefix) THEN <<Head(tags)>> ELSE <<>>)
             \o GlobList(Tail(tags), prefix)

TagNames(tags) == [i \in 1..Len(tags) |-> tags[i].name]

\* The results a git subprocess can have.  The remote holds no tag the
\* repository lacks, so a fetch leaves the tags of the repository as they are.
Failures == { GitFailed(e) : e \in GitErrors }
ListingFailure == GitFailed(<<"f", "a", "t", "a", "l">>)
QueryResults(prefix) ==
    { GitOk(FormatTagListing(GlobList(repoTags, prefix))), ListingFailure }
ListAllResults ==
    { GitOk(FormatNameListing(TagNames(repoTags))), ListingFailure }
\* git refuses to create a tag whose name is taken
CreateResults(name) ==
    (IF InSeq(name, TagNames(repoTags)) THEN {} ELSE { GitOk(<<>>) })
        \cup Failures
PlainResults == { GitOk(<<>>) } \cup Failures

LogEntry(op, name, annotation, result) ==
    [op |-> op, name |-> name, annotation |-> annotation,
     status |-> result.status, stderr |-> result.stderr]

Line(kind, text) == [kind |-> kind, text |-> text]

\* What node prints for a TypeError nothing catches; the process then ends
\* with exit code 1
UncaughtTypeError == Line("typeError", <<>>)

\* `X Error: ${error.message}` (X stands for the cross mark)
ErrorLine(msg) ==
    Line("error", <<"X", " ", "E", "r", "r", "o", "r", ":", " ">> \o msg)

(***************************************************************************)
(* bump.js                                                                 *)
(***************************************************************************)
\* Mutant: a failed step does not end the command.
NextStepIgnoringFailure(step, threw) ==
    CASE step = "bump_create" -> "bump_push"
      [] step = "bump_push" -> "bump_fetch"
      [] step = "bump_fetch" -> "done"

\* The try block of bump: the statement after a step, or the catch handler
\* (process.exit) when the step threw
NextStep(step, threw) ==
    IF threw THEN "done"
    ELSE CASE step = "bump_create" -> "bump_push"
           [] step = "bump_push" -> "bump_fetch"
           [] step = "bump_fetch" -> "done"

\* The tag `git tag` creates at the current commit
CreatedTag(name, annotation) ==
    IF annotation = <<>>
    THEN [name |-> name, tagger |-> <<>>, date |-> <<>>, contents |-> CommitMessage]
    ELSE [name |-> name, tagger |-> <<"m", "e">>, date |-> <<"n", "o", "w">>,
          contents |-> annotation \o <<"\n">>]

EnvArgs == { Null, KeyProd, <<"d", "e", "v">>, KeyNone }
Messages == { <<>>, <<" ">>, <<" ", "h", "i", " ">> }

\* Line 10: Object.keys(ENVS) throws when the registry is null
BumpKeysThrow ==
    /\ pc = "main"
    /\ ~IsRegistry(ENVS)
    /\ envArg' \in EnvArgs
    /\ cmd' = "bump"
    /\ console' = Append(console, UncaughtTypeError)
    /\ pc' = "done"
    /\ exitCode' = <<1>>
    /\ UNCHANGED <<fnVars, worldVars, ENVS, gitLog, prompts, envName, latest,
                   newTag, message, setupVars, idx>>

\* What the list prompt can resolve to: one of its choices.  Without any
\* choice it yields no environment name.
Answers(envNames) ==
    IF envNames = <<>> THEN {Null}
    ELSE {envNames[i] : i \in 1..Len(envNames)}

\* Mutant: only an absent argument is replaced by the prompt's answer.
EnvChoiceUnchecked(arg, envNames, answer) ==
    IF arg = Null
    THEN [asked |-> TRUE, envName |-> answer]
    ELSE [asked |-> FALSE, envName |-> arg]

\* Lines 11-26: the argument when it is a registry key, else the answer to
\* the prompt
EnvChoice(arg, envNames, answer) ==
    IF arg = Null \/ ~InSeq(arg, envNames)
    THEN [asked |-> TRUE, envName |-> answer]
    ELSE [asked |-> FALSE, envName |-> arg]

\* Lines 10-40: choose the environment, resolve its latest tag, plan the
\* name.  Reading env.prefix of an undefined env at line 32 is a TypeError.
BumpPlan ==
    /\ pc = "main"
    /\ IsRegistry(ENVS)
    /\ \E arg \in EnvArgs, answer \in Answers(Keys(ENVS)) :
        LET envNames == Keys(ENVS)
            choice == EnvChoice(arg, envNames, answer)
            chosen == choice.envName
            env == Lookup(ENVS, chosen)
        IN  /\ envArg' = arg
            /\ envName' = chosen
            /\ prompts' = IF choice.asked
                          THEN Append(prompts, Prompt("env", envNames, answer))
                          ELSE prompts
            /\ IF env = Null
               THEN /\ console' = Append(console, UncaughtTypeError)
                    /\ pc' = "done"
                    /\ exitCode' = <<1>>
                    /\ UNCHANGED <<latest, newTag, gitLog>>
               ELSE \E result \in QueryResults(env[1].prefix) :
                    LET found == getLatestTagForEnv(chosen, ENVS, result)
                        baseVersion == IF found # Null THEN found[1].version
                                       ELSE <<0, 0, 0>>
                        nextVersion == bumpPatch(baseVersion)
                    IN  /\ latest' = found
                        /\ newTag' = env[1].prefix \o formatVersion(nextVersion)
                        /\ gitLog' = Append(gitLog,
                                 LogEntry("list", env[1].prefix, <<>>, result))
                        /\ console' = Append(console, Line("next", newTag'))
                        /\ pc' = "bump_message"
                        /\ exitCode' = exitCode
    /\ cmd' = "bump"
    /\ UNCHANGED <<fnVars, worldVars, ENVS, message, setupVars, idx>>

\* Lines 42-49: the annotation prompt
BumpAskMessage ==
    /\ pc = "bump_message"
    /\ message' \in Messages
    /\ pc' = "bump_create"
    /\ UNCHANGED <<fnVars, prompts, worldVars, ENVS, cmd, exitCode, console,
                   gitLog, envArg, envName, latest, newTag, setupVars, idx>>

\* One git step of the try block and what follows it
BumpGitStep(step, op, annotation, result) ==
    LET git == runGit(result)
        next == NextStep(step, git.threw)
    IN  /\ gitLog' = Append(gitLog, LogEntry(op, newTag, annotation, result))
        /\ console' = Append(console,
                          IF git.threw THEN ErrorLine(git.message)
                          ELSE Line(op, newTag))
        /\ pc' = next
        /\ exitCode' = IF git.threw THEN <<1>>
                       ELSE IF next = "done" THEN <<0>> ELSE exitCode

\* Mutant: the message is passed to git as typed.
AnnotationAsTyped(msg) == msg

\* Lines 52-56: the -m argument is message.trim(); no -a and -m at all when
\* that is empty
AnnotationOf(msg) == Trim(msg)

\* Lines 51-58: create the tag, annotated when the message is not blank
BumpCreate ==
    /\ pc = "bump_create"
    /\ LET annotation == AnnotationOf(message) IN
       \E result \in CreateResults(newTag) :
           /\ BumpGitStep("bump_create", "tag", annotation, result)
           /\ repoTags' = IF result.status = 0
                          THEN Append(repoTags, CreatedTag(newTag, annotation))
                          ELSE repoTags
    /\ UNCHANGED <<fnVars, prompts, configFile, ENVS, cmd, bumpVars, setupVars, idx>>

\* Lines 60-62: push the tag to origin
BumpPush ==
    /\ pc = "bump_push"
    /\ \E result \in PlainResults :
           BumpGitStep("bump_push", "push", <<>>, result)
    /\ UNCHANGED <<fnVars, prompts, worldVars, ENVS, cmd, bumpVars, setupVars, idx>>

\* Lines 63-64: refetch the tags of origin
BumpFetch ==
    /\ pc = "bump_fetch"
    /\ \E result \in PlainResults :
           BumpGitStep("bump_fetch", "fetch", <<>>, result)
    /\ UNCHANGED <<fnVars, prompts, worldVars, ENVS, cmd, bumpVars, setupVars, idx>>

(***************************************************************************)
(* list.js                                                                 *)
(***************************************************************************)
\* Mutant: the loop stops at the first environment that has no latest tag.
ListNextStopAtMissing(i, found) ==
    IF found = Null \/ i = Len(ENVS) THEN "done" ELSE "list_loop"

\* Object.entries(ENVS).forEach: the callback runs for every entry
ListNext(i, found) == IF i = Len(ENVS) THEN "done" ELSE "list_loop"

\* Lines 10-13: nothing to list when the registry is empty
ListStart ==
    /\ pc = "main"
    /\ IsRegistry(ENVS)
    /\ cmd' = "list"
    /\ IF Len(ENVS) = 0
       THEN /\ console' = Append(console, Line("noEnvs", <<>>))
            /\ pc' = "done"
            /\ exitCode' = <<0>>
            /\ idx' = idx
       ELSE /\ console' = console
            /\ pc' = "list_loop"
            /\ exitCode' = exitCode
            /\ idx' = 1
    /\ UNCHANGED <<fnVars, prompts, worldVars, ENVS, gitLog, bumpVars, setupVars>>

\* Line 9: Object.keys(ENVS) throws when the registry is null
ListKeysThrow ==
    /\ pc = "main"
    /\ ~IsRegistry(ENVS)
    /\ cmd' = "list"
    /\ console' = Append(console, UncaughtTypeError)
    /\ pc' = "done"
    /\ exitCode' = <<1>>
    /\ UNCHANGED <<fnVars, worldVars, ENVS, gitLog, prompts, bumpVars,
                   setupVars, idx>>

\* Lines 15-36: one call of the forEach callback
ListEnv ==
    /\ pc = "list_loop"
    /\ LET env == ENVS[idx] IN
       \E result \in QueryResults(env.prefix) :
           LET found == getLatestTagForEnv(env.key, ENVS, result) IN
           /\ gitLog' = Append(gitLog, LogEntry("list", env.prefix, <<>>, result))
           /\ console' = Append(console,
                             IF found = Null THEN Line("noTags", env.key)
                             ELSE Line("latest", found[1].name))
           /\ pc' = ListNext(idx, found)
           /\ exitCode' = IF pc' = "done" THEN <<0>> ELSE exitCode
    /\ idx' = idx + 1
    /\ UNCHANGED <<fnVars, prompts, worldVars, ENVS, cmd, bumpVars, setupVars>>

(***************************************************************************)
(* setup.js                                                                *)
(***************************************************************************)
UpperCase ==
    <<"A", "B", "C", "D", "E", "F", "G", "H", "I", "J", "K", "L", "M",
      "N", "O", "P", "Q", "R", "S", "T", "U", "V", "W", "X", "Y", "Z">>
LowerCase ==
    <<"a", "b", "c", "d", "e", "f", "g", "h", "i", "j", "k", "l", "m",
      "n", "o", "p", "q", "r", "s", "t", "u", "v", "w", "x", "y", "z">>

\* The UTF-16 code unit of a letter, digit, dot or hyphen
CharCode(c) ==
    IF \E i \in 1..26 : UpperCase[i] = c
    THEN 64 + (CHOOSE i \in 1..26 : UpperCase[i] = c)
    ELSE IF \E i \in 1..26 : LowerCase[i] = c
    THEN 96 + (CHOOSE i \in 1..26 : LowerCase[i] = c)
    ELSE IF IsDigit(c) THEN 48 + DigitVal(c)
    ELSE IF c = "." THEN 46
    ELSE 45

CharToLower(c) ==
    IF \E i \in 1..26 : UpperCase[i] = c
    THEN LowerCase[CHOOSE i \in 1..26 : UpperCase[i] = c]
    ELSE c

CharToUpper(c) ==
    IF \E i \in 1..26 : LowerCase[i] = c
    THEN UpperCase[CHOOSE i \in 1..26 : LowerCase[i] = c]
    ELSE c

\* String.prototype.toLowerCase
ToLowerCase(str) == [i \in 1..Len(str) |-> CharToLower(str[i])]

\* prefix.charAt(0).toUpperCase() + prefix.slice(1)
Capitalized(str) ==
    IF str = <<>> THEN <<>> ELSE <<CharToUpper(str[1])>> \o SliceFrom(str, 1)

\* The order of Array.prototype.sort without a comparator: by code units
StringLess(a, b) ==
    \/ \E i \in 1..Len(a) :
           /\ i <= Len(b)
           /\ \A k \in 1..(i - 1) : a[k] = b[k]
           /\ CharCode(a[i]) < CharCode(b[i])
    \/ Len(a) < Len(b) /\ \A k \in 1..Len(a) : a[k] = b[k]

\* Array.from(prefixMap.keys()).sort()
RECURSIVE SortStrings(_)
SortStrings(strs) ==
    IF strs = <<>> THEN <<>>
    ELSE LET sorted == SortStrings(SubSeq(strs, 1, Len(strs) - 1))
             x == strs[Len(strs)]
             k == Cardinality({i \in 1..Len(sorted) : ~StringLess(x, sorted[i])})
         IN  SubSeq(sorted, 1, k) \o <<x>> \o SubSeq(sorted, k + 1, Len(sorted))

\* config[key] = entry on an object: a present key keeps its position
SetEntry(cfg, entry) ==
    IF HasKey(cfg, entry.key)
    THEN [i \in 1..Len(cfg) |-> IF cfg[i].key = entry.key THEN entry ELSE cfg[i]]
    ELSE Append(cfg, entry)

\* Mutant: the configuration is saved also when it is empty.
ShouldSaveAlways(cfg) == TRUE

\* Object.keys(config).length > 0
ShouldSave(cfg) == Len(cfg) > 0

CustomName == <<"Q", "A">>
Descriptions == { <<>>, <<"t", "e", "x", "t">> }

\* Lines 10-16: fetch the tags of origin; a failure is only a warning
SetupFetch ==
    /\ pc = "main"
    /\ cmd' = "setup"
    /\ \E result \in PlainResults :
           LET git == runGit(result) IN
           /\ gitLog' = Append(gitLog, LogEntry("fetch", <<>>, <<>>, result))
           /\ console' = Append(console,
                             IF git.threw THEN Line("warning", git.message)
                             ELSE Line("fetch", <<>>))
    /\ pc' = "setup_detect"
    /\ UNCHANGED <<fnVars, prompts, worldVars, ENVS, exitCode, bumpVars, setupVars, idx>>

\* Lines 18-32: detect the prefixes; nothing to configure without any
SetupDetect ==
    /\ pc = "setup_detect"
    /\ \E result \in ListAllResults :
           LET detected == detectPrefixes(result) IN
           /\ gitLog' = Append(gitLog, LogEntry("list", <<>>, <<>>, result))
           /\ prefixMap' = detected
           /\ IF Len(detected) = 0
              THEN /\ console' = Append(console, Line("noPatterns", <<>>))
                   /\ prefixArray' = prefixArray
                   /\ idx' = idx
                   /\ pc' = "done"
                   /\ exitCode' = <<0>>
              ELSE /\ console' = Append(console, Line("found", <<>>))
                   /\ prefixArray' = SortStrings(
                          [i \in 1..Len(detected) |-> detected[i].prefix])
                   /\ idx' = 1
                   /\ pc' = "setup_prompt"
                   /\ exitCode' = exitCode
    /\ config' = <<>>
    /\ UNCHANGED <<fnVars, prompts, worldVars, ENVS, cmd, bumpVars>>

\* Lines 36-91: the four prompts for one prefix
SetupPrompt ==
    /\ pc = "setup_prompt"
    /\ LET prefix == prefixArray[idx] IN
       \E configure \in BOOLEAN :
           IF ~configure
           THEN /\ console' = Append(console, Line("skipped", prefix))
                /\ config' = config
                /\ prompts' = Append(prompts, Prompt("configure", prefix, No))
           ELSE \E name \in {Capitalized(prefix), CustomName},
                   description \in Descriptions, confirm \in BOOLEAN :
                    /\ console' = console
                    /\ prompts' = prompts
                           \o << Prompt("configure", prefix, Yes),
                                 Prompt("confirm", prefix, YesNo(confirm)) >>
                    /\ config' =
                          IF confirm
                          THEN SetEntry(config,
                                   [key |-> ToLowerCase(prefix), label |-> name,
                                    prefix |-> prefix,
                                    description |-> description])
                          ELSE config
    /\ idx' = idx + 1
    /\ pc' = IF idx = Len(prefixArray) THEN "setup_save" ELSE "setup_prompt"
    /\ UNCHANGED <<fnVars, worldVars, ENVS, cmd, exitCode, gitLog, bumpVars,
                   prefixMap, prefixArray>>

\* Lines 94-100: save the new registry unless it is empty
SetupSave ==
    /\ pc = "setup_save"
    /\ IF ShouldSave(config)
       THEN /\ configFile' = saveConfig(config)
            /\ console' = Append(console, Line("saved", <<>>))
       ELSE /\ configFile' = configFile
            /\ console' = Append(console, Line("notSaved", <<>>))
    /\ pc' = "done"
    /\ exitCode' = <<0>>
    /\ UNCHANGED <<fnVars, prompts, repoTags, ENVS, cmd, gitLog, bumpVars, setupVars, idx>>

(***************************************************************************)
(* reset.js (src/unnamed/part_001) and the refresh command of list.js      *)
(***************************************************************************)
\* Mutant: the file is deleted whatever the answer.
ResetProceedsAlways(confirm) == TRUE

\* Lines 21-24: `if (!confirm) return`
ResetProceeds(confirm) == confirm

\* Lines 11, 34-37: ask only when the file exists
ResetStart ==
    /\ pc = "main"
    /\ cmd' = "reset"
    /\ IF configFile # Null
       THEN /\ pc' = "reset_confirm"
            /\ console' = console
            /\ exitCode' = exitCode
       ELSE /\ pc' = "done"
            /\ console' = console \o << Line("noFile", <<>>),
                                        Line("usingDefault", <<>>) >>
            /\ exitCode' = <<0>>
    /\ UNCHANGED <<fnVars, worldVars, ENVS, gitLog, prompts, bumpVars,
                   setupVars, idx>>

\* Lines 12-33: the confirmation, then unlinkSync, which can throw
ResetConfirm ==
    /\ pc = "reset_confirm"
    /\ \E confirm \in BOOLEAN, unlinked \in BOOLEAN :
        /\ prompts' = Append(prompts, Prompt("reset", <<>>, YesNo(confirm)))
        /\ IF ~ResetProceeds(confirm)
           THEN /\ console' = Append(console, Line("cancelled", <<>>))
                /\ configFile' = configFile
                /\ exitCode' = <<0>>
           ELSE IF unlinked
           THEN /\ console' = Append(console, Line("deleted", <<>>))
                /\ configFile' = Null
                /\ exitCode' = <<0>>
           ELSE /\ console' = Append(console, Line("errorDeleting", <<>>))
                /\ configFile' = configFile
                /\ exitCode' = <<1>>
    /\ pc' = "done"
    /\ UNCHANGED <<fnVars, repoTags, ENVS, cmd, gitLog, bumpVars, setupVars,
                   idx>>

\* list.js lines 49-57: fetch the tags of origin; a failure ends the command
Refresh ==
    /\ pc = "main"
    /\ cmd' = "refresh"
    /\ \E result \in PlainResults :
           LET git == runGit(result) IN
           /\ gitLog' = Append(gitLog, LogEntry("fetch", <<>>, <<>>, result))
           /\ console' = Append(console,
                             IF git.threw THEN Line("errorRefreshing", git.message)
                             ELSE Line("refreshed", <<>>))
           /\ exitCode' = IF git.threw THEN <<1>> ELSE <<0>>
    /\ pc' = "done"
    /\ UNCHANGED <<fnVars, worldVars, ENVS, prompts, bumpVars, setupVars, idx>>

(***************************************************************************)
(* Spec: one process, from the loaded registry to its exit.                *)
(***************************************************************************)
KeyDev == <<"d", "e", "v">>

RepoTagPool ==
    { [name |-> <<"v", "1", ".", "2", ".", "3">>, tagger |-> <<"b", "o", "b">>,
       date |-> <<"2", "d">>, contents |-> <<"a", "|", "b", "\n">>],
      [name |-> <<"v", "1", ".", "2", ".", "1", "0">>, tagger |-> <<>>,
       date |-> <<>>, contents |-> CommitMessage],
      [name |-> <<"v", "0", ".", "0", ".", "1", "-", "r", "c">>, tagger |-> <<>>,
       date |-> <<>>, contents |-> CommitMessage],
      [name |-> <<"d", "0", ".", "0", ".", "9">>, tagger |-> <<"a", "n", "n">>,
       date |-> <<"3", "h">>, contents |-> <<"f", "i", "x", "\n">>],
      [name |-> <<"V", "2", ".", "0", ".", "0">>, tagger |-> <<>>,
       date |-> <<>>, contents |-> CommitMessage] }

Repositories ==
    { l \in UNION {[1..n -> RepoTagPool] : n \in 0..MaxRepoTags} :
          \A i, j \in DOMAIN l : i # j => l[i].name # l[j].name }

\* No file; a file that cannot be read; one that is not JSON; the JSON text
\* `null`; the JSON text `{}`; a file that setup saved
ConfigFiles ==
    { Null,
      <<[readable |-> FALSE, valid |-> FALSE, config |-> <<>>]>>,
      <<[readable |-> TRUE, valid |-> FALSE, config |-> <<>>]>>,
      <<[readable |-> TRUE, valid |-> TRUE, config |-> JsonNull]>>,
      saveConfig(<<>>),
      saveConfig(<<[key |-> KeyDev, label |-> <<"D", "e", "v">>,
                    prefix |-> <<"d">>, description |-> <<"t", "e", "x", "t">>],
                   [key |-> <<"v">>, label |-> <<"V">>,
                    prefix |-> <<"v">>, description |-> <<>>]>>) }

Init ==
    /\ args = [fn |-> "none"]
    /\ ret = <<>>
    /\ configFile \in ConfigFiles
    /\ repoTags \in Repositories
    /\ ENVS = loadConfig(configFile)
    /\ cmd = "none"
    /\ pc = "main"
    /\ exitCode = Null
    /\ console = <<>>
    /\ gitLog = <<>>
    /\ prompts = <<>>
    /\ envArg = Null
    /\ envName = Null
    /\ latest = Null
    /\ newTag = Null
    /\ message = Null
    /\ prefixMap = <<>>
    /\ prefixArray = <<>>
    /\ config = <<>>
    /\ idx = 0

Next ==
    \/ BumpKeysThrow
    \/ BumpPlan
    \/ BumpAskMessage
    \/ BumpCreate
    \/ BumpPush
    \/ BumpFetch
    \/ ListKeysThrow
    \/ ListStart
    \/ ListEnv
    \/ SetupFetch
    \/ SetupDetect
    \/ SetupPrompt
    \/ SetupSave
    \/ ResetStart
    \/ ResetConfirm
    \/ Refresh

Spec == Init /\ [][Next]_vars

(***************************************************************************)
(* Claims about bump.                                                      *)
(***************************************************************************)
Dot == <<".">>

\* The version bump plans from: the latest tag's, or (0,0,0) without one
PlannedBase == IF latest = Null THEN <<0, 0, 0>> ELSE latest[1].version

BumpEnv == Lookup(ENVS, envName)[1]

IsWriteOp(e) == e.op # "list"
WriteOps == SelectSeq(gitLog, IsWriteOp)
BumpOrder == <<"tag", "push", "fetch">>

\* C3: in every bump run the git operations happen in the order create,
\* push, refetch; push runs only after a successful create, refetch only
\* after a successful push, and a failure of any of the three ends the
\* command with a non-zero exit without running the later steps.
C3_Sequential ==
    cmd = "bump" =>
        /\ Len(WriteOps) <= 3
        /\ \A i \in 1..Len(WriteOps) : WriteOps[i].op = BumpOrder[i]
        /\ \A i \in 1..(Len(WriteOps) - 1) : WriteOps[i].status = 0
        /\ (Len(WriteOps) > 0 /\ WriteOps[Len(WriteOps)].status # 0)
               => (pc = "done" /\ exitCode = <<1>>)
        /\ pc = "done" => exitCode # Null
        /\ exitCode = <<0>>
               => (Len(WriteOps) = 3 /\ WriteOps[3].status = 0)

\* The refetch failed after a successful create and push.
C3_Witness ==
    /\ cmd = "bump"
    /\ pc = "done"
    /\ Len(WriteOps) = 3
    /\ WriteOps[3].status # 0
    /\ exitCode = <<1>>

\* String.prototype.includes
Contains(str, sub) ==
    \E i \in 1..(Len(str) + 1) :
        /\ i + Len(sub) - 1 <= Len(str)
        /\ SubSeq(str, i, i + Len(sub) - 1) = sub

CreatedThenPushFailed ==
    /\ cmd = "bump"
    /\ Len(WriteOps) >= 2
    /\ WriteOps[1].status = 0
    /\ WriteOps[2].status # 0

\* C4: when the tag creation succeeds and the push then fails, the process
\* exits non-zero, the created local tag is not deleted (no rollback step is
\* run), and the failure message printed contains the push command's error
\* text unmodified.
C4_PushFailureKeepsTag ==
    CreatedThenPushFailed =>
        /\ pc = "done"
        /\ exitCode = <<1>>
        /\ InSeq(newTag, TagNames(repoTags))
        /\ Len(WriteOps) = 2
        /\ \A i \in 1..Len(gitLog) :
               gitLog[i].op \in {"list", "tag", "push"}
        /\ console[Len(console)].kind = "error"
        /\ Contains(console[Len(console)].text, WriteOps[2].stderr)

C4_Witness ==
    /\ CreatedThenPushFailed
    /\ WriteOps[2].stderr = <<"f", "a", "t", "a", "l">>
    /\ newTag = <<"d", "0", ".", "0", ".", "1", "0">>
    /\ InSeq(newTag, TagNames(repoTags))
    /\ exitCode = <<1>>

(***************************************************************************)
(* Claims about setup and list.                                            *)
(***************************************************************************)
\* C5: a setup run in which no prefix ends up accepted (all skipped or
\* declined, or none detected) never writes the configuration file: no
\* step of a setup run that leaves the new registry empty changes the file.
C5_EmptySetupKeepsFile ==
    [][(cmd' = "setup" /\ config' = <<>>) => configFile' = configFile]_vars

\* Prefixes were offered, none was accepted, and a valid file existed.
C5_Witness ==
    /\ cmd = "setup"
    /\ pc = "done"
    /\ Len(prefixArray) = 2
    /\ config = <<>>
    /\ configFile # Null
    /\ configFile[1].valid
    /\ console[Len(console)].kind = "notSaved"

\* C6: a failed tag query makes getLatestTagForEnv return absent, and list
\* still processes every environment of the registry, printing "no tags
\* found" for the failed one; list never ends early or exits non-zero
\* because a query failed.
C6_ListSurvivesQueryFailure ==
    (cmd = "list" /\ IsRegistry(ENVS) /\ Len(ENVS) > 0) =>
        /\ Len(gitLog) = idx - 1
        /\ Len(console) = Len(gitLog)
        /\ \A i \in 1..Len(gitLog) :
               gitLog[i].status # 0 => console[i] = Line("noTags", ENVS[i].key)
        /\ exitCode \in {Null, <<0>>}
        /\ (pc = "done") <=> (exitCode = <<0>>)
        /\ pc = "done" => Len(console) = Len(ENVS)

\* The first query failed and a later environment still shows its tag.
C6_Witness ==
    /\ cmd = "list"
    /\ pc = "done"
    /\ exitCode = <<0>>
    /\ Len(gitLog) >= 2
    /\ gitLog[1].status # 0
    /\ console[1].kind = "noTags"
    /\ \E i \in 2..Len(console) : console[i].kind = "latest"

DefaultPairs ==
    [i \in 1..Len(DEFAULT_ENVS) |-> <<DEFAULT_ENVS[i].key, DEFAULT_ENVS[i].prefix>>]

\* C12: loadConfig never fails.  When the configuration file is absent,
\* unreadable or malformed the registry is the default one, of exactly the
\* five environments prod -> v, sandbox -> x, preprod -> preprod,
\* staging -> s, dev -> d; and the registry a command receives is always a
\* mapping from keys to environments.
C12_AlwaysARegistry ==
    pc = "main" =>
        /\ (\/ configFile = Null
            \/ ~configFile[1].readable
            \/ ~configFile[1].valid) => ENVS = DEFAULT_ENVS
        /\ DefaultPairs = << <<KeyProd, <<"v">>>>,
                             <<<<"s", "a", "n", "d", "b", "o", "x">>, <<"x">>>>,
                             <<<<"p", "r", "e", "p", "r", "o", "d">>,
                               <<"p", "r", "e", "p", "r", "o", "d">>>>,
                             <<<<"s", "t", "a", "g", "i", "n", "g">>, <<"s">>>>,
                             <<KeyDev, <<"d">>>> >>
        /\ IsRegistry(ENVS)

LastPrompt(log) == log[Len(log)]

\* One step of a reset run
ResetStepOk ==
    cmd' = "reset" =>
        /\ configFile' \in {configFile, Null}
        /\ configFile' # configFile
               => /\ prompts' # <<>>
                  /\ LastPrompt(prompts') = Prompt("reset", <<>>, Yes)
        /\ (pc = "reset_confirm" /\ LastPrompt(prompts').answer = No)
               => /\ configFile' = configFile
                  /\ pc' = "done"
                  /\ exitCode' = <<0>>
        /\ (pc = "main" /\ configFile = Null)
               => /\ configFile' = Null
                  /\ prompts' = <<>>
                  /\ pc' = "done"
        /\ (pc = "main" /\ configFile # Null) => configFile' = configFile

\* C13: reset deletes the configuration file only if it exists and the
\* user answered yes to the confirmation; when the user declines the file
\* is untouched and the command ends with exit code 0; when no file exists
\* nothing is deleted and no confirmation is asked.
C13_ResetOnlyOnYes == [][ResetStepOk]_vars

\* The user said yes and the file is gone.
C13_Witness ==
    /\ cmd = "reset"
    /\ pc = "done"
    /\ prompts = <<Prompt("reset", <<>>, Yes)>>
    /\ configFile = Null
    /\ console = <<Line("deleted", <<>>)>>
    /\ exitCode = <<0>>

\* The user confirmed an entry for the prefix
Accepted(prefix) ==
    \E i \in 1..Len(prompts) : prompts[i] = Prompt("confirm", prefix, Yes)

\* C14: after a setup run that writes the configuration, the saved mapping
\* holds exactly one entry under the lower-cased prefix for each detected
\* prefix the user accepted, each entry's prefix field is the detected
\* prefix unchanged, and no entry of the previous configuration survives.
C14_OneEntryPerAcceptedPrefix ==
    (/\ cmd = "setup"
     /\ pc = "done"
     /\ LastPrompt(<<Line("none", <<>>)>> \o console) = Line("saved", <<>>)) =>
        LET saved == configFile[1].config IN
        /\ \A k \in 1..Len(prefixArray) :
               Accepted(prefixArray[k]) =>
                   /\ Cardinality({e \in 1..Len(saved) :
                          saved[e].key = ToLowerCase(prefixArray[k])}) = 1
                   /\ \E e \in 1..Len(saved) :
                          /\ saved[e].key = ToLowerCase(prefixArray[k])
                          /\ saved[e].prefix = prefixArray[k]
        /\ \A e \in 1..Len(saved) :
               \E k \in 1..Len(prefixArray) :
                   /\ Accepted(prefixArray[k])
                   /\ saved[e].key = ToLowerCase(prefixArray[k])

IsCreateOp(e) == e.op = "tag"
CreateOps == SelectSeq(gitLog, IsCreateOp)
IsBlank(str) == \A i \in 1..Len(str) : IsSpace(str[i])

\* C15: bump issues exactly one create-tag operation, for the planned name:
\* an annotated tag whose message is the typed annotation trimmed when the
\* annotation is not blank, a lightweight tag when it is empty or only
\* white space.
C15_AnnotatedWhenNotBlank ==
    cmd = "bump" =>
        /\ Len(CreateOps) <= 1
        /\ (pc \in {"bump_push", "bump_fetch"} \/ Len(WriteOps) >= 1)
               => Len(CreateOps) = 1
        /\ Len(CreateOps) = 1 =>
            /\ CreateOps[1].name = newTag
            /\ IsBlank(message) <=> CreateOps[1].annotation = <<>>
            /\ message = <<" ", "h", "i", " ">>
                   => CreateOps[1].annotation = <<"h", "i">>
            /\ CreateOps[1].status = 0 =>
                   LET tag == repoTags[Len(repoTags)] IN
                   /\ tag.name = newTag
                   /\ IsBlank(message) => tag.tagger = <<>>
                   /\ ~IsBlank(message)
                          => /\ tag.tagger # <<>>
                             /\ tag.contents = Trim(message) \o <<"\n">>

\* The annotation " hi " gives an annotated tag with the message "hi".
C15_Witness ==
    /\ cmd = "bump"
    /\ message = <<" ", "h", "i", " ">>
    /\ Len(CreateOps) = 1
    /\ CreateOps[1].status = 0
    /\ CreateOps[1].annotation = <<"h", "i">>
    /\ repoTags[Len(repoTags)].name = newTag
    /\ repoTags[Len(repoTags)].contents = <<"h", "i", "\n">>

\* The latest tag of an environment among the given tags, by a tag query
\* that succeeds
LatestAmong(tags, env) ==
    getLatestTagForEnv(env.key, ENVS,
                       GitOk(FormatTagListing(GlobList(tags, env.prefix))))

DistinctPrefixes ==
    \A i, j \in 1..Len(ENVS) : i # j => ENVS[i].prefix # ENVS[j].prefix

\* C16: with a registry of distinct prefixes, a successful bump of an
\* environment raises that environment's latest version by exactly one
\* patch step and leaves the latest tag of every other environment as it
\* was.
C16_OwnVersionSequence ==
    (/\ cmd = "bump"
     /\ pc = "done"
     /\ exitCode = <<0>>
     /\ DistinctPrefixes) =>
        LET before == SubSeq(repoTags, 1, Len(repoTags) - 1)
            was == LatestAmong(before, BumpEnv)
            now == LatestAmong(repoTags, BumpEnv)
        IN  /\ now # Null
            /\ now[1].version = bumpPatch(IF was = Null THEN <<0, 0, 0>>
                                          ELSE was[1].version)
            /\ \A i \in 1..Len(ENVS) :
                   ENVS[i].key # envName
                       => LatestAmong(repoTags, ENVS[i])
                              = LatestAmong(before, ENVS[i])

\* C19: in bump the environment used is always a key of the loaded
\* registry: it is the argument when that is a registry key, and otherwise
\* the answer to a prompt whose choices are the registry keys; no tag is
\* planned or created for an environment that is not configured, and none
\* at all when the registry is empty.
C19_EnvIsRegistryKey ==
    cmd = "bump" =>
        IF ~IsRegistry(ENVS) \/ Len(ENVS) = 0
        THEN envName = Null /\ newTag = Null /\ gitLog = <<>>
        ELSE /\ HasKey(ENVS, envName)
             /\ IF envArg # Null /\ HasKey(ENVS, envArg)
                THEN envName = envArg /\ prompts = <<>>
                ELSE prompts = <<Prompt("env", Keys(ENVS), envName)>>
             /\ newTag # Null => StartsWith(newTag, BumpEnv.prefix)
             /\ \A i \in 1..Len(gitLog) :
                    gitLog[i].op = "list" => gitLog[i].name = BumpEnv.prefix

\* The argument names no environment of the registry, the user picks dev
\* from the prompt and the tag is created under dev's prefix.
C19_Witness ==
    /\ cmd = "bump"
    /\ envArg = KeyNone
    /\ IsRegistry(ENVS)
    /\ prompts = <<Prompt("env", Keys(ENVS), KeyDev)>>
    /\ envName = KeyDev
    /\ Len(CreateOps) = 1
    /\ CreateOps[1].status = 0
    /\ StartsWith(CreateOps[1].name, <<"d">>)

\* C21: in every bump run, whatever the outcome of the tag query, the name
\* passed to the create step is not the name of a tag that exists already
\* and decodes under the environment's prefix to a version strictly
\* greater than that of every existing tag that decodes under the prefix.
C21_NewTagIsNewAndGreater ==
    (cmd = "bump" /\ pc = "bump_create") =>
        /\ ~InSeq(newTag, TagNames(repoTags))
        /\ parseSemverFromTag(newTag, BumpEnv.prefix) # Null
        /\ \A i \in 1..Len(repoTags) :
               LET version == parseSemverFromTag(repoTags[i].name,
                                                 BumpEnv.prefix)
               IN  version # Null
                       => compareSemver(parseSemverFromTag(newTag,
                                            BumpEnv.prefix), version) > 0

====
